---- MODULE Spec2Model ----
(***************************************************************************)
(* Model of the hackathon ledger contract (contracts/HackathonFunding.sol) *)
(* and of the settlement handlers of server/server.js that drive it.       *)
(*                                                                         *)
(* The contract's functions are operators on a ledger state record         *)
(*   [hackathons, activeHackathons, balance, paused]                       *)
(* returning [ok, st, transfers, events]: a failed require reverts the     *)
(* call, which restores the state the call started from.                   *)
(***************************************************************************)
EXTENDS Integers, Sequences, FiniteSets, TLC

(* ----------------------------- constants ------------------------------ *)

\* address(0)
ZeroAddress == 0
\* the deployer, organizer = msg.sender of the constructor; it is also the
\* signer of the server
Organizer == 1
\* setWinners accepts 1..MaxWinners winners
MaxWinners == 3
MinWinners == 1
\* shares of distributePrizes, in percent
Share3First == 50
Share3Second == 30
Share2First == 70
Percent == 100

(* ------------------------------- bounds ------------------------------- *)

\* the hackathons mapping is modelled on the ids 0..MaxId
MaxId == 2
\* the ledger specification calls the ids 0..LedgerMaxId
LedgerMaxId == 0
\* msg.value of a funding is 0..MaxValue in the ledger specifications
MaxValue == 2
\* msg.value of a funding is 0..PayMaxFunding in the payout specification
PayMaxFunding == 101
\* a plain deposit (receive) is accepted while balance < MaxBalance
MaxBalance == 2
\* ethers.parseEther multiplies by 10^18; the model counts a small number of
\* wei to the ether instead, so that amounts stay small
WeiPerEther == 2
\* the server handles up to MaxRequests settlement requests at a time
MaxRequests == 2
\* the winners specification builds its lists from address(0) and the
\* addresses 2..WinnersMaxAddress
WinnersMaxAddress == 3

\* accounts: address(0), the organizer, and MaxWinners + 1 others, so that a
\* list of MaxWinners + 1 distinct non-zero winners exists
Addresses == 0 .. (MaxWinners + 2)
\* an account that is not the organizer
Stranger == Organizer + 1

(* ------------------------------ helpers ------------------------------- *)

RECURSIVE SumAmounts(_)
SumAmounts(ts) == IF ts = <<>> THEN 0 ELSE Head(ts)[2] + SumAmounts(Tail(ts))

SeqsUpTo(S, n) == UNION {[1 .. k -> S] : k \in 0 .. n}

Range(s) == {s[i] : i \in 1 .. Len(s)}

(* --------------------------- ledger contract -------------------------- *)

VARIABLES
    hackathons,        \* mapping(uint256 => Hackathon)
    activeHackathons,  \* uint256[]
    balance,           \* address(this).balance
    paused,            \* Pausable._paused
    frame,             \* the distributePrizes that is making its transfers
    paid,              \* history: per id, the distributions and their total
    last,              \* history: the call of the contract in the latest step
    rows,              \* the hackathons table of the server
    requests,          \* the settlement requests the server is handling
    mempool,           \* transactions the server has sent, oldest first
    response           \* history: the response of the server in the latest step

ledgerVars == <<hackathons, activeHackathons, balance, paused, frame>>
serverVars == <<rows, requests, mempool>>
vars == <<hackathons, activeHackathons, balance, paused, frame, paid, last,
          rows, requests, mempool, response>>

Ids == 0 .. MaxId

Ledger ==
    [hackathons |-> hackathons, activeHackathons |-> activeHackathons,
     balance |-> balance, paused |-> paused]

\* a slot of the hackathons mapping that was never written
NoHackathon ==
    [totalFunding |-> 0, isFunded |-> FALSE, prizesDistributed |-> FALSE,
     isEnded |-> FALSE, winners |-> <<>>, exists |-> FALSE]

\* a failed require: every change of the call is undone
Revert(st) == [ok |-> FALSE, st |-> st, transfers |-> <<>>, events |-> <<>>]

\* mutant: any caller but address(0) passes
onlyOrganizerAnyCaller(sender) == sender # ZeroAddress

onlyOrganizer(sender) == sender = Organizer

whenNotPaused(st) == ~st.paused

hackathonExists(st, id) == st.hackathons[id].exists

\* the index of the first i with activeHackathons[i] = id, 0 when there is none
FirstIndexOf(active, id) ==
    IF \E i \in 1 .. Len(active) : active[i] = id
    THEN CHOOSE i \in 1 .. Len(active) :
             /\ active[i] = id
             /\ \A j \in 1 .. (i - 1) : active[j] # id
    ELSE 0

\* mutant: the last entry is popped without being moved into the gap
removeActiveHackathonPopOnly(active, id) ==
    IF FirstIndexOf(active, id) = 0 THEN active
    ELSE SubSeq(active, 1, Len(active) - 1)

removeActiveHackathon(active, id) ==
    LET i == FirstIndexOf(active, id)
        n == Len(active)
    IN  IF i = 0 THEN active
        ELSE LET moved == IF i # n THEN [active EXCEPT ![i] = active[n]]
                          ELSE active
             IN  SubSeq(moved, 1, n - 1)

\* mutant: a funded record may be funded again
fundRequiresNoFundedCheck(h, value) == value > 0

\* the requires of fundHackathon
fundRequires(h, value) == ~h.isFunded /\ value > 0

\* mutant: a failed require gives up without undoing the creation
fundHackathonKeepsCreation(st, sender, id, value) ==
    LET recv == [st EXCEPT !.balance = @ + value]
        h0 == recv.hackathons[id]
        created == ~h0.exists
        h1 == [h0 EXCEPT !.exists = TRUE]
    IN  IF ~onlyOrganizer(sender) \/ ~whenNotPaused(st) THEN Revert(st)
        ELSE IF ~fundRequires(h1, value)
             THEN Revert([st EXCEPT !.hackathons[id] = h1])
        ELSE [ok |-> TRUE,
              st |-> [recv EXCEPT
                        !.hackathons[id] =
                            [h1 EXCEPT !.totalFunding = value,
                                       !.isFunded = TRUE],
                        !.activeHackathons = Append(@, id)],
              transfers |-> <<>>,
              events |-> (IF created THEN << <<"HackathonCreated", id>> >>
                          ELSE <<>>)
                         \o << <<"Funded", id, value>> >>]

fundHackathon(st, sender, id, value) ==
    LET recv == [st EXCEPT !.balance = @ + value]
        h0 == recv.hackathons[id]
        created == ~h0.exists
        h1 == [h0 EXCEPT !.exists = TRUE]
    IN  IF ~onlyOrganizer(sender) \/ ~whenNotPaused(st) THEN Revert(st)
        ELSE IF ~fundRequires(h1, value) THEN Revert(st)
        ELSE [ok |-> TRUE,
              st |-> [recv EXCEPT
                        !.hackathons[id] =
                            [h1 EXCEPT !.totalFunding = value,
                                       !.isFunded = TRUE],
                        !.activeHackathons = Append(@, id)],
              transfers |-> <<>>,
              events |-> (IF created THEN << <<"HackathonCreated", id>> >>
                          ELSE <<>>)
                         \o << <<"Funded", id, value>> >>]

\* mutant: only neighbouring entries are compared
WinnersLoopAdjacentOnly(ws) ==
    \A i \in 1 .. Len(ws) :
        /\ ws[i] # ZeroAddress
        /\ (i + 1 <= Len(ws) => ws[i] # ws[i + 1])

\* the loop of setWinners: no zero address, no two equal entries
WinnersLoopPasses(ws) ==
    \A i \in 1 .. Len(ws) :
        /\ ws[i] # ZeroAddress
        /\ \A j \in (i + 1) .. Len(ws) : ws[i] # ws[j]

\* mutant: the winners may be replaced after the distribution
setWinnersRequiresNoDistributedCheck(h) == h.isFunded

\* the requires of setWinners on the record
setWinnersRequires(h) == h.isFunded /\ ~h.prizesDistributed

setWinners(st, sender, id, ws) ==
    LET h == st.hackathons[id]
    IN  IF ~onlyOrganizer(sender) \/ ~whenNotPaused(st) THEN Revert(st)
        ELSE IF ~hackathonExists(st, id) THEN Revert(st)
        ELSE IF ~setWinnersRequires(h) THEN Revert(st)
        ELSE IF ~(Len(ws) >= MinWinners /\ Len(ws) <= MaxWinners)
             THEN Revert(st)
        ELSE IF ~WinnersLoopPasses(ws) THEN Revert(st)
        ELSE [ok |-> TRUE,
              st |-> [st EXCEPT !.hackathons[id].winners = ws],
              transfers |-> <<>>,
              events |-> << <<"WinnersSet", id, ws>> >>]

\* mutant: the last of three winners gets floor(20%) instead of the remainder
PrizeAmountsFloorLast(totalFunding, n) ==
    IF n = 3
    THEN <<(totalFunding * 50) \div 100, (totalFunding * 30) \div 100,
           (totalFunding * 20) \div 100>>
    ELSE IF n = 2
    THEN <<(totalFunding * 70) \div 100, (totalFunding * 30) \div 100>>
    ELSE <<totalFunding>>

\* mutant: the remainder goes to the first winner instead of the last
PrizeAmountsRemainderFirst(totalFunding, n) ==
    IF n = 3
    THEN LET b == (totalFunding * 30) \div 100
             c == (totalFunding * 20) \div 100
         IN  <<totalFunding - b - c, b, c>>
    ELSE IF n = 2
    THEN LET b == (totalFunding * 30) \div 100
         IN  <<totalFunding - b, b>>
    ELSE <<totalFunding>>

\* the prize amounts of distributePrizes for n winners, in list order
PrizeAmounts(totalFunding, n) ==
    IF n = 3
    THEN LET prizeAmount1 == (totalFunding * Share3First) \div Percent
             prizeAmount2 == (totalFunding * Share3Second) \div Percent
         IN  <<prizeAmount1, prizeAmount2,
               totalFunding - prizeAmount1 - prizeAmount2>>
    ELSE IF n = 2
    THEN LET prizeAmount1 == (totalFunding * Share2First) \div Percent
         IN  <<prizeAmount1, totalFunding - prizeAmount1>>
    ELSE <<totalFunding>>

\* _safeTransfer: the event is emitted for a hackathonId > 0 only
safeTransferEvents(recipient, amount, hackathonId) ==
    IF hackathonId > 0
    THEN << <<"PrizeDistributed", hackathonId, recipient, amount>> >>
    ELSE <<>>

RECURSIVE TransferEvents(_, _)
TransferEvents(ts, hackathonId) ==
    IF ts = <<>> THEN <<>>
    ELSE safeTransferEvents(Head(ts)[1], Head(ts)[2], hackathonId)
         \o TransferEvents(Tail(ts), hackathonId)

\* mutant: a hackathon that is not ended may be distributed
distributeRequiresNoEndedCheck(st, h) ==
    /\ h.isFunded
    /\ Len(h.winners) > 0
    /\ ~h.prizesDistributed
    /\ st.balance >= h.totalFunding

\* mutant: a distributed hackathon may be distributed again
distributeRequiresNoDistributedCheck(st, h) ==
    /\ h.isFunded
    /\ Len(h.winners) > 0
    /\ h.isEnded
    /\ st.balance >= h.totalFunding

\* the requires of distributePrizes
distributeRequires(st, h) ==
    /\ h.isFunded
    /\ Len(h.winners) > 0
    /\ ~h.prizesDistributed
    /\ h.isEnded
    /\ st.balance >= h.totalFunding

\* mutant: _safeTransfer without require(success): a refused transfer is
\* skipped and the distribution goes on
distributePrizesSkipsRefused(st, sender, id, failAt) ==
    LET h == st.hackathons[id]
        n == Len(h.winners)
        amounts == PrizeAmounts(h.totalFunding, n)
        m == Len(amounts)
        all == [k \in 1 .. (IF m > n THEN 0 ELSE m) |->
                  <<h.winners[k], amounts[k]>>]
        transfers == SelectSeq(all, LAMBDA t : t # all[failAt])
    IN  IF ~onlyOrganizer(sender) \/ ~whenNotPaused(st) THEN Revert(st)
        ELSE IF ~hackathonExists(st, id) THEN Revert(st)
        ELSE IF ~distributeRequires(st, h) THEN Revert(st)
        ELSE IF m > n THEN Revert(st)
        ELSE IF failAt \notin 1 .. m
        THEN [ok |-> TRUE,
              st |-> [st EXCEPT
                        !.balance = @ - SumAmounts(all),
                        !.hackathons[id].prizesDistributed = TRUE,
                        !.activeHackathons = removeActiveHackathon(@, id)],
              transfers |-> all,
              events |-> TransferEvents(all, id)]
        ELSE [ok |-> TRUE,
              st |-> [st EXCEPT
                        !.balance = @ - SumAmounts(transfers),
                        !.hackathons[id].prizesDistributed = TRUE,
                        !.activeHackathons = removeActiveHackathon(@, id)],
              transfers |-> transfers,
              events |-> TransferEvents(all, id)]

\* mutant: the record is deleted once its prizes are distributed
distributePrizesDeletesRecord(st, sender, id, failAt) ==
    LET h == st.hackathons[id]
        n == Len(h.winners)
        amounts == PrizeAmounts(h.totalFunding, n)
        m == Len(amounts)
        transfers == [k \in 1 .. (IF m > n THEN 0 ELSE m) |->
                        <<h.winners[k], amounts[k]>>]
    IN  IF ~onlyOrganizer(sender) \/ ~whenNotPaused(st) THEN Revert(st)
        ELSE IF ~hackathonExists(st, id) THEN Revert(st)
        ELSE IF ~distributeRequires(st, h) THEN Revert(st)
        ELSE IF m > n THEN Revert(st)
        ELSE IF failAt \in 1 .. m THEN Revert(st)
        ELSE [ok |-> TRUE,
              st |-> [st EXCEPT
                        !.balance = @ - SumAmounts(transfers),
                        !.hackathons[id] = NoHackathon,
                        !.activeHackathons = removeActiveHackathon(@, id)],
              transfers |-> transfers,
              events |-> TransferEvents(transfers, id)]

\* failAt = k > 0: the recipient of the k-th transfer refuses it; 0: none does
distributePrizes(st, sender, id, failAt) ==
    LET h == st.hackathons[id]
        n == Len(h.winners)
        amounts == PrizeAmounts(h.totalFunding, n)
        m == Len(amounts)
        transfers == [k \in 1 .. (IF m > n THEN 0 ELSE m) |->
                        <<h.winners[k], amounts[k]>>]
        totalDistributed == SumAmounts(transfers)
    IN  IF ~onlyOrganizer(sender) \/ ~whenNotPaused(st) THEN Revert(st)
        ELSE IF ~hackathonExists(st, id) THEN Revert(st)
        ELSE IF ~distributeRequires(st, h) THEN Revert(st)
        \* winners[k] beyond the list: the index check of the array panics
        ELSE IF m > n THEN Revert(st)
        ELSE IF failAt \in 1 .. m THEN Revert(st)
        ELSE IF totalDistributed # h.totalFunding THEN Revert(st)
        ELSE [ok |-> TRUE,
              st |-> [st EXCEPT
                        !.balance = @ - totalDistributed,
                        !.hackathons[id].prizesDistributed = TRUE,
                        !.activeHackathons = removeActiveHackathon(@, id)],
              transfers |-> transfers,
              events |-> TransferEvents(transfers, id)]

\* mutant: endHackathon without the whenNotPaused modifier
endHackathonWhilePaused(st, sender, id) ==
    LET h == st.hackathons[id]
    IN  IF ~onlyOrganizer(sender) THEN Revert(st)
        ELSE IF ~hackathonExists(st, id) THEN Revert(st)
        ELSE IF h.isEnded THEN Revert(st)
        ELSE [ok |-> TRUE,
              st |-> [st EXCEPT !.hackathons[id].isEnded = TRUE],
              transfers |-> <<>>,
              events |-> << <<"HackathonEnded", id>> >>]

\* mutant: the End marks every record that exists
endHackathonEndsEvery(st, sender, id) ==
    LET h == st.hackathons[id]
    IN  IF ~onlyOrganizer(sender) \/ ~whenNotPaused(st) THEN Revert(st)
        ELSE IF ~hackathonExists(st, id) THEN Revert(st)
        ELSE IF h.isEnded THEN Revert(st)
        ELSE [ok |-> TRUE,
              st |-> [st EXCEPT
                        !.hackathons =
                            [b \in DOMAIN @ |->
                                IF @[b].exists
                                THEN [@[b] EXCEPT !.isEnded = TRUE]
                                ELSE @[b]]],
              transfers |-> <<>>,
              events |-> << <<"HackathonEnded", id>> >>]

endHackathon(st, sender, id) ==
    LET h == st.hackathons[id]
    IN  IF ~onlyOrganizer(sender) \/ ~whenNotPaused(st) THEN Revert(st)
        ELSE IF ~hackathonExists(st, id) THEN Revert(st)
        ELSE IF h.isEnded THEN Revert(st)
        ELSE [ok |-> TRUE,
              st |-> [st EXCEPT !.hackathons[id].isEnded = TRUE],
              transfers |-> <<>>,
              events |-> << <<"HackathonEnded", id>> >>]

\* mutant: the organizer may withdraw while prizes are pending
withdrawRequiresNoPendingCheck(st) == st.balance > 0

\* the requires of withdraw
withdrawRequires(st) == Len(st.activeHackathons) = 0 /\ st.balance > 0

\* mutant: one wei is kept back
withdrawLeavesOneWei(st, sender, failAt) ==
    LET amount == st.balance - 1
    IN  IF ~onlyOrganizer(sender) \/ ~whenNotPaused(st) THEN Revert(st)
        ELSE IF ~withdrawRequires(st) THEN Revert(st)
        ELSE IF failAt = 1 THEN Revert(st)
        ELSE [ok |-> TRUE,
              st |-> [st EXCEPT !.balance = @ - amount],
              transfers |-> << <<Organizer, amount>> >>,
              events |-> safeTransferEvents(Organizer, amount, 0)
                         \o << <<"Withdrawn", Organizer, amount>> >>]

withdraw(st, sender, failAt) ==
    LET amount == st.balance
    IN  IF ~onlyOrganizer(sender) \/ ~whenNotPaused(st) THEN Revert(st)
        ELSE IF ~withdrawRequires(st) THEN Revert(st)
        ELSE IF failAt = 1 THEN Revert(st)
        ELSE [ok |-> TRUE,
              st |-> [st EXCEPT !.balance = @ - amount],
              transfers |-> << <<Organizer, amount>> >>,
              events |-> safeTransferEvents(Organizer, amount, 0)
                         \o << <<"Withdrawn", Organizer, amount>> >>]

pause(st, sender) ==
    IF ~onlyOrganizer(sender) \/ st.paused THEN Revert(st)
    ELSE [ok |-> TRUE, st |-> [st EXCEPT !.paused = TRUE],
          transfers |-> <<>>, events |-> << <<"Paused", sender>> >>]

unpause(st, sender) ==
    IF ~onlyOrganizer(sender) \/ ~st.paused THEN Revert(st)
    ELSE [ok |-> TRUE, st |-> [st EXCEPT !.paused = FALSE],
          transfers |-> <<>>, events |-> << <<"Unpaused", sender>> >>]

\* receive() external payable {}
receive(st, value) ==
    [ok |-> TRUE, st |-> [st EXCEPT !.balance = @ + value],
     transfers |-> <<>>, events |-> <<>>]

(* ------------------------------ actions ------------------------------- *)

NoCall ==
    [op |-> "none", sender |-> ZeroAddress, id |-> 0, value |-> 0,
     winners |-> <<>>, failAt |-> 0, ok |-> FALSE,
     transfers |-> <<>>, events |-> <<>>]

NoResponse == [cmd |-> "none", id |-> 0, status |-> 0]

\* no distributePrizes is running
NoFrame ==
    [active |-> FALSE, id |-> 0, k |-> 0, amounts |-> <<>>,
     start |-> [hackathons |-> <<>>, activeHackathons |-> <<>>,
                balance |-> 0, paused |-> FALSE]]

\* one transaction: the outcome r of the call becomes the ledger state; the
\* chain runs one transaction at a time
Transact(r, call) ==
    /\ ~frame.active
    /\ frame' = frame
    /\ hackathons' = r.st.hackathons
    /\ activeHackathons' = r.st.activeHackathons
    /\ balance' = r.st.balance
    /\ paused' = r.st.paused
    /\ paid' = IF call.op = "distributePrizes" /\ r.ok
               THEN [paid EXCEPT
                       ![call.id] = [count |-> @.count + 1,
                                     amount |-> @.amount
                                                + SumAmounts(r.transfers)]]
               ELSE paid
    /\ last' = [call EXCEPT !.ok = r.ok, !.transfers = r.transfers,
                            !.events = r.events]

FundHackathon(sender, id, value) ==
    /\ Transact(fundHackathon(Ledger, sender, id, value),
                [NoCall EXCEPT !.op = "fundHackathon", !.sender = sender,
                               !.id = id, !.value = value])
    /\ UNCHANGED serverVars
    /\ response' = NoResponse

SetWinners(sender, id, ws) ==
    /\ Transact(setWinners(Ledger, sender, id, ws),
                [NoCall EXCEPT !.op = "setWinners", !.sender = sender,
                               !.id = id, !.winners = ws])
    /\ UNCHANGED serverVars
    /\ response' = NoResponse

DistributePrizes(sender, id, failAt) ==
    /\ Transact(distributePrizes(Ledger, sender, id, failAt),
                [NoCall EXCEPT !.op = "distributePrizes", !.sender = sender,
                               !.id = id, !.failAt = failAt])
    /\ UNCHANGED serverVars
    /\ response' = NoResponse

EndHackathon(sender, id) ==
    /\ Transact(endHackathon(Ledger, sender, id),
                [NoCall EXCEPT !.op = "endHackathon", !.sender = sender,
                               !.id = id])
    /\ UNCHANGED serverVars
    /\ response' = NoResponse

Withdraw(sender, failAt) ==
    /\ Transact(withdraw(Ledger, sender, failAt),
                [NoCall EXCEPT !.op = "withdraw", !.sender = sender,
                               !.failAt = failAt])
    /\ UNCHANGED serverVars
    /\ response' = NoResponse

Pause(sender) ==
    /\ Transact(pause(Ledger, sender),
                [NoCall EXCEPT !.op = "pause", !.sender = sender])
    /\ UNCHANGED serverVars
    /\ response' = NoResponse

Unpause(sender) ==
    /\ Transact(unpause(Ledger, sender),
                [NoCall EXCEPT !.op = "unpause", !.sender = sender])
    /\ UNCHANGED serverVars
    /\ response' = NoResponse

Receive(value) ==
    /\ balance < MaxBalance
    /\ Transact(receive(Ledger, value),
                [NoCall EXCEPT !.op = "receive", !.sender = Stranger,
                               !.value = value])
    /\ UNCHANGED serverVars
    /\ response' = NoResponse

(* ------------- distributePrizes, one transfer at a time --------------- *)

\* the account the transfer in progress calls; beyond the list there is none
Recipient ==
    IF frame.active /\ frame.k <= Len(hackathons[frame.id].winners)
    THEN hackathons[frame.id].winners[frame.k]
    ELSE ZeroAddress

\* a call made by the code of a recipient while distributePrizes holds the
\* reentrancy guard: fundHackathon, distributePrizes and withdraw are
\* nonReentrant; setWinners, endHackathon, pause and unpause are not
ReenteredOutcome(st, call) ==
    CASE call.op \in {"fundHackathon", "distributePrizes", "withdraw"} ->
           Revert(st)
      [] call.op = "setWinners" ->
           setWinners(st, call.sender, call.id, call.winners)
      [] call.op = "endHackathon" -> endHackathon(st, call.sender, call.id)
      [] call.op = "pause" -> pause(st, call.sender)
      [] call.op = "unpause" -> unpause(st, call.sender)

\* distributePrizes up to the call of its first _safeTransfer
DistributeEnter(sender, id) ==
    LET h == hackathons[id]
        n == Len(h.winners)
        amounts == PrizeAmounts(h.totalFunding, n)
        call == [NoCall EXCEPT !.op = "distributePrizes", !.sender = sender,
                               !.id = id]
    IN  IF \/ ~onlyOrganizer(sender) \/ ~whenNotPaused(Ledger)
           \/ ~hackathonExists(Ledger, id)
           \/ ~distributeRequires(Ledger, h)
           \/ Len(amounts) > n
        THEN /\ Transact(Revert(Ledger), call)
             /\ UNCHANGED serverVars
             /\ response' = NoResponse
        ELSE /\ ~frame.active
             /\ frame' = [active |-> TRUE, id |-> id, k |-> 1,
                          amounts |-> amounts, start |-> Ledger]
             /\ balance' = balance - amounts[1]
             /\ UNCHANGED <<hackathons, activeHackathons, paused, paid>>
             /\ last' = [NoCall EXCEPT !.op = "transfer", !.sender = sender,
                                       !.id = id, !.value = amounts[1]]
             /\ UNCHANGED serverVars
             /\ response' = NoResponse

\* the recipient of the transfer in progress calls the contract; the
\* organizer is the account of PRIVATE_KEY, which has no code to run
Reenter(op, id, ws) ==
    LET call == [NoCall EXCEPT !.op = op, !.sender = Recipient, !.id = id,
                               !.winners = ws]
        r == ReenteredOutcome(Ledger, call)
    IN  /\ frame.active
        /\ Recipient # Organizer
        /\ hackathons' = r.st.hackathons
        /\ activeHackathons' = r.st.activeHackathons
        /\ balance' = r.st.balance
        /\ paused' = r.st.paused
        /\ UNCHANGED <<frame, paid>>
        /\ last' = [call EXCEPT !.ok = r.ok, !.events = r.events]
        /\ UNCHANGED serverVars
        /\ response' = NoResponse

\* the transfer in progress was refused, or the next winner is missing: the
\* transaction reverts to the state it started from
TransferRefused ==
    /\ frame.active
    /\ hackathons' = frame.start.hackathons
    /\ activeHackathons' = frame.start.activeHackathons
    /\ balance' = frame.start.balance
    /\ paused' = frame.start.paused
    /\ frame' = NoFrame
    /\ UNCHANGED paid
    /\ last' = [NoCall EXCEPT !.op = "distributePrizes",
                              !.sender = Organizer, !.id = frame.id,
                              !.failAt = frame.k]
    /\ UNCHANGED serverVars
    /\ response' = NoResponse

\* the transfer in progress returned: the next _safeTransfer, or, after the
\* last one, the rest of distributePrizes
TransferReturns ==
    LET id == frame.id
        h == hackathons[id]
        m == Len(frame.amounts)
        transfers == [j \in 1 .. m |-> <<h.winners[j], frame.amounts[j]>>]
    IN  /\ frame.active
        /\ frame.k + 1 <= Len(h.winners) \/ frame.k = m
        /\ IF frame.k < m
           THEN /\ frame' = [frame EXCEPT !.k = @ + 1]
                /\ balance' = balance - frame.amounts[frame.k + 1]
                /\ UNCHANGED <<hackathons, activeHackathons, paused, paid>>
                /\ last' = [NoCall EXCEPT
                               !.op = "transfer", !.sender = Organizer,
                               !.id = id,
                               !.value = frame.amounts[frame.k + 1]]
           ELSE /\ m <= Len(h.winners)
                /\ SumAmounts(transfers) = h.totalFunding
                /\ hackathons' = [hackathons EXCEPT
                                    ![id].prizesDistributed = TRUE]
                /\ activeHackathons' =
                       removeActiveHackathon(activeHackathons, id)
                /\ UNCHANGED <<balance, paused>>
                /\ frame' = NoFrame
                /\ paid' = [paid EXCEPT
                              ![id] = [count |-> @.count + 1,
                                       amount |-> @.amount
                                                  + SumAmounts(transfers)]]
                /\ last' = [NoCall EXCEPT
                               !.op = "distributePrizes",
                               !.sender = Organizer, !.id = id, !.ok = TRUE,
                               !.transfers = transfers,
                               !.events = TransferEvents(transfers, id)]
        /\ UNCHANGED serverVars
        /\ response' = NoResponse

(* -------------------- settlement handlers (server) -------------------- *)

\* the settlement handlers serve at most MaxRequests requests at a time
Slots == 1 .. MaxRequests

\* a row of the hackathons table that was not inserted
NoRow ==
    [present |-> FALSE, organizer_id |-> 0, status |-> "none",
     manually_ended |-> FALSE, manually_ended_at |-> FALSE,
     funded_amount |-> 0, funded_at |-> FALSE,
     winners |-> <<>>,
     prizes_distributed |-> FALSE, prizes_distributed_at |-> FALSE]

\* POST /api/hackathons: the row as inserted, the other columns at their
\* defaults
NewRow(user) ==
    [NoRow EXCEPT !.present = TRUE, !.organizer_id = user.id,
                  !.status = "active"]

Idle ==
    [pc |-> "idle", cmd |-> "none", id |-> 0, amount |-> 0,
     winners |-> <<>>, txok |-> FALSE]

\* ethers.isAddress: the zero address is an address
isAddress(w) == w \in Addresses

\* ethers.parseEther
parseEther(amount) == amount * WeiPerEther

\* the function of the contract a command calls
ContractFunction(cmd) ==
    CASE cmd = "end" -> "endHackathon"
      [] cmd = "fund" -> "fundHackathon"
      [] cmd = "set-winners" -> "setWinners"
      [] cmd = "distribute" -> "distributePrizes"

\* the checks of a handler before its contract call: the status of the
\* response that rejects the request, 0 when the request goes on
\* mutant: the organizer of the row is not compared with the requester
EndChecksAnyOrganizer(user, id) ==
    IF user.role # "organizer" THEN 403
    ELSE IF ~rows[id].present THEN 404
    ELSE IF rows[id].manually_ended THEN 400
    ELSE 0

EndChecks(user, id) ==
    IF user.role # "organizer" THEN 403
    ELSE IF ~rows[id].present THEN 404
    ELSE IF rows[id].organizer_id # user.id THEN 403
    ELSE IF rows[id].manually_ended THEN 400
    ELSE 0

\* mutant: a hackathon that is not ended may be funded
FundChecksNoEndedCheck(user, id, amount) ==
    IF user.role # "organizer" THEN 403
    ELSE IF ~rows[id].present THEN 404
    ELSE IF rows[id].organizer_id # user.id THEN 403
    ELSE IF rows[id].funded_amount > 0 THEN 400
    ELSE 0

FundChecks(user, id, amount) ==
    IF user.role # "organizer" THEN 403
    ELSE IF ~rows[id].present THEN 404
    ELSE IF rows[id].organizer_id # user.id THEN 403
    ELSE IF ~rows[id].manually_ended THEN 400
    ELSE IF rows[id].funded_amount > 0 THEN 400
    ELSE 0

SetWinnersChecks(user, id, winners) ==
    IF user.role # "organizer" THEN 403
    ELSE IF Len(winners) = 0 THEN 400
    ELSE IF ~rows[id].present THEN 404
    ELSE IF rows[id].organizer_id # user.id THEN 403
    ELSE IF ~rows[id].manually_ended THEN 400
    ELSE IF rows[id].funded_amount <= 0 THEN 400
    ELSE IF \E i \in 1 .. Len(winners) : ~isAddress(winners[i]) THEN 500
    ELSE 0

DistributeChecks(user, id) ==
    IF user.role # "organizer" THEN 403
    ELSE IF ~rows[id].present THEN 404
    ELSE IF rows[id].organizer_id # user.id THEN 403
    ELSE IF ~rows[id].manually_ended THEN 400
    ELSE IF rows[id].funded_amount <= 0 THEN 400
    ELSE IF Len(rows[id].winners) = 0 THEN 400
    ELSE 0

Checks(cmd, user, id, amount, winners) ==
    CASE cmd = "end" -> EndChecks(user, id)
      [] cmd = "fund" -> FundChecks(user, id, amount)
      [] cmd = "set-winners" -> SetWinnersChecks(user, id, winners)
      [] cmd = "distribute" -> DistributeChecks(user, id)

\* the UPDATE of a handler after tx.wait()
UpdatedRow(row, req) ==
    CASE req.cmd = "end" ->
           [row EXCEPT !.manually_ended = TRUE, !.manually_ended_at = TRUE,
                       !.status = "ended"]
      [] req.cmd = "fund" ->
           [row EXCEPT !.funded_amount = req.amount, !.funded_at = TRUE]
      [] req.cmd = "set-winners" ->
           [row EXCEPT !.winners = req.winners]
      [] req.cmd = "distribute" ->
           [row EXCEPT !.prizes_distributed = TRUE,
                       !.prizes_distributed_at = TRUE]

\* the call a transaction of the server makes; the signer is the organizer
CallOf(tx) ==
    [NoCall EXCEPT !.op = ContractFunction(tx.cmd), !.sender = Organizer,
                   !.id = tx.id, !.value = parseEther(tx.amount),
                   !.winners = tx.winners]

\* the outcome of a call on the ledger state st; no recipient refuses
Execute(st, call) ==
    CASE call.op = "endHackathon" -> endHackathon(st, call.sender, call.id)
      [] call.op = "fundHackathon" ->
           fundHackathon(st, call.sender, call.id, call.value)
      [] call.op = "setWinners" ->
           setWinners(st, call.sender, call.id, call.winners)
      [] call.op = "distributePrizes" ->
           distributePrizes(st, call.sender, call.id, call.failAt)

\* POST /api/hackathons: the next id of the SERIAL column
CreateHackathon(user, ids) ==
    LET id == 1 + Cardinality({i \in Ids : rows[i].present})
    IN  /\ user.role = "organizer"
        /\ id \in ids
        /\ rows' = [rows EXCEPT ![id] = NewRow(user)]
        /\ UNCHANGED <<ledgerVars, paid, requests, mempool>>
        /\ last' = NoCall
        /\ response' = NoResponse

\* a handler up to its contract call: the role, the SELECT and the checks;
\* a request takes the first free slot
Begin(slot, cmd, user, id, amount, winners) ==
    LET status == Checks(cmd, user, id, amount, winners)
    IN  /\ requests[slot].pc = "idle"
        /\ \A other \in 1 .. (slot - 1) : requests[other].pc # "idle"
        /\ IF status = 0
           THEN /\ requests' =
                     [requests EXCEPT
                        ![slot] = [pc |-> "call", cmd |-> cmd, id |-> id,
                                   amount |-> amount, winners |-> winners,
                                   txok |-> FALSE]]
                /\ response' = NoResponse
           ELSE /\ response' = [cmd |-> cmd, id |-> id, status |-> status]
                /\ UNCHANGED requests
        /\ UNCHANGED <<ledgerVars, paid, rows, mempool>>
        /\ last' = NoCall

\* mutant: the UPDATE is made when the transaction is sent, before tx.wait()
SubmitThenUpdate(slot) ==
    /\ requests[slot].pc = "call"
    /\ Len(mempool) < MaxRequests
    /\ mempool' = Append(mempool,
                         [cmd |-> requests[slot].cmd, id |-> requests[slot].id,
                          amount |-> requests[slot].amount,
                          winners |-> requests[slot].winners, slot |-> slot])
    /\ requests' = [requests EXCEPT ![slot].pc = "wait"]
    /\ rows' = [rows EXCEPT
                  ![requests[slot].id] = UpdatedRow(@, requests[slot])]
    /\ UNCHANGED <<ledgerVars, paid>>
    /\ last' = NoCall
    /\ response' = NoResponse

\* await contract.f(...): the transaction is sent
Submit(slot) ==
    /\ requests[slot].pc = "call"
    /\ Len(mempool) < MaxRequests
    /\ mempool' = Append(mempool,
                         [cmd |-> requests[slot].cmd, id |-> requests[slot].id,
                          amount |-> requests[slot].amount,
                          winners |-> requests[slot].winners, slot |-> slot])
    /\ requests' = [requests EXCEPT ![slot].pc = "wait"]
    /\ UNCHANGED <<ledgerVars, paid, rows>>
    /\ last' = NoCall
    /\ response' = NoResponse

\* await contract.f(...) throws: nothing was sent; the catch answers 500
SubmitFails(slot) ==
    /\ requests[slot].pc = "call"
    /\ response' = [cmd |-> requests[slot].cmd, id |-> requests[slot].id,
                    status |-> 500]
    /\ requests' = [requests EXCEPT ![slot] = Idle]
    /\ UNCHANGED <<ledgerVars, paid, rows, mempool>>
    /\ last' = NoCall

\* the oldest transaction of the server is included in a block
Mine ==
    /\ mempool # <<>>
    /\ LET tx == Head(mempool)
           call == CallOf(tx)
           r == Execute(Ledger, call)
       IN  /\ Transact(r, call)
           /\ requests' =
                IF tx.slot # 0
                THEN [requests EXCEPT ![tx.slot].pc = "mined",
                                      ![tx.slot].txok = r.ok]
                ELSE requests
    /\ mempool' = Tail(mempool)
    /\ UNCHANGED rows
    /\ response' = NoResponse

\* mutant: the UPDATE is made whatever the status of the receipt
ConfirmedWhateverStatus(slot) ==
    /\ requests[slot].pc = "mined"
    /\ rows' = [rows EXCEPT
                  ![requests[slot].id] = UpdatedRow(@, requests[slot])]
    /\ response' = [cmd |-> requests[slot].cmd, id |-> requests[slot].id,
                    status |-> 200]
    /\ requests' = [requests EXCEPT ![slot] = Idle]
    /\ UNCHANGED <<ledgerVars, paid, mempool>>
    /\ last' = NoCall

\* await tx.wait() returns: the UPDATE, then the response
Confirmed(slot) ==
    /\ requests[slot].pc = "mined"
    /\ requests[slot].txok
    /\ rows' = [rows EXCEPT
                  ![requests[slot].id] = UpdatedRow(@, requests[slot])]
    /\ response' = [cmd |-> requests[slot].cmd, id |-> requests[slot].id,
                    status |-> 200]
    /\ requests' = [requests EXCEPT ![slot] = Idle]
    /\ UNCHANGED <<ledgerVars, paid, mempool>>
    /\ last' = NoCall

\* await tx.wait() throws for a reverted transaction: the catch answers 500
Reverted(slot) ==
    /\ requests[slot].pc = "mined"
    /\ ~requests[slot].txok
    /\ response' = [cmd |-> requests[slot].cmd, id |-> requests[slot].id,
                    status |-> 500]
    /\ requests' = [requests EXCEPT ![slot] = Idle]
    /\ UNCHANGED <<ledgerVars, paid, rows, mempool>>
    /\ last' = NoCall

\* await tx.wait() throws for a lost connection or a timeout of the provider:
\* the catch answers 500, and the transaction is mined, or not, without the
\* handler
WaitFails(slot) ==
    /\ requests[slot].pc \in {"wait", "mined"}
    /\ response' = [cmd |-> requests[slot].cmd, id |-> requests[slot].id,
                    status |-> 500]
    /\ requests' = [requests EXCEPT ![slot] = Idle]
    /\ mempool' = [k \in 1 .. Len(mempool) |->
                     IF mempool[k].slot = slot
                     THEN [mempool[k] EXCEPT !.slot = 0]
                     ELSE mempool[k]]
    /\ UNCHANGED <<ledgerVars, paid, rows>>
    /\ last' = NoCall

\* a transaction of the server is dropped from the pool and never mined
Dropped ==
    /\ mempool # <<>>
    /\ Head(mempool).slot = 0
    /\ mempool' = Tail(mempool)
    /\ UNCHANGED <<ledgerVars, paid, rows, requests>>
    /\ last' = NoCall
    /\ response' = NoResponse

\* the state after the constructor and with an empty table
Init ==
    /\ hackathons = [id \in Ids |-> NoHackathon]
    /\ activeHackathons = <<>>
    /\ balance = 0
    /\ paused = FALSE
    /\ frame = NoFrame
    /\ paid = [id \in Ids |-> [count |-> 0, amount |-> 0]]
    /\ last = NoCall
    /\ rows = [id \in Ids |-> NoRow]
    /\ requests = [slot \in Slots |-> Idle]
    /\ mempool = <<>>
    /\ response = NoResponse

(* ------ payouts: one id, funded with any of 1..PayMaxFunding ----------- *)

PayIds == {1}
PayLists == {<<2>>, <<3, 2>>, <<2, 3, 4>>, <<4, 2, 3>>}

\* the constructor, then one funding of the id by the organizer
InitPay ==
    \E id \in PayIds, v \in 1 .. PayMaxFunding :
        LET r == fundHackathon(
                     [hackathons |-> [i \in Ids |-> NoHackathon],
                      activeHackathons |-> <<>>, balance |-> 0,
                      paused |-> FALSE],
                     Organizer, id, v)
        IN  /\ hackathons = r.st.hackathons
            /\ activeHackathons = r.st.activeHackathons
            /\ balance = r.st.balance
            /\ paused = r.st.paused
            /\ frame = NoFrame
            /\ paid = [i \in Ids |-> [count |-> 0, amount |-> 0]]
            /\ last = [NoCall EXCEPT !.op = "fundHackathon",
                                     !.sender = Organizer, !.id = id,
                                     !.value = v, !.ok = r.ok,
                                     !.events = r.events]
            /\ rows = [i \in Ids |-> NoRow]
            /\ requests = [slot \in Slots |-> Idle]
            /\ mempool = <<>>
            /\ response = NoResponse

NextPay ==
    \/ \E id \in PayIds, ws \in PayLists : SetWinners(Organizer, id, ws)
    \/ \E id \in PayIds : EndHackathon(Organizer, id)
    \/ \E id \in PayIds, f \in 0 .. MaxWinners :
           DistributePrizes(Organizer, id, f)

SpecPay == InitPay /\ [][NextPay]_vars

(* ------- ledger: the whole life of a record, with deposits ------------ *)

LedgerIds == 0 .. LedgerMaxId
LedgerLists == {<<>>, <<2>>, <<3, 2>>, <<2, 3, 4>>}

NextLedger ==
    \/ \E id \in LedgerIds, v \in 0 .. MaxValue :
           FundHackathon(Organizer, id, v)
    \/ \E id \in LedgerIds, ws \in LedgerLists :
           SetWinners(Organizer, id, ws)
    \/ \E id \in LedgerIds : EndHackathon(Organizer, id)
    \/ \E id \in LedgerIds, f \in 0 .. 1 :
           DistributePrizes(Organizer, id, f)
    \/ \E f \in 0 .. 1 : Withdraw(Organizer, f)
    \/ \E v \in 1 .. MaxValue : Receive(v)

SpecLedger == Init /\ [][NextLedger]_vars

(* ------- index: several ids funded and distributed in any order -------- *)

IndexLists == {<<2>>}

NextIndex ==
    \/ \E id \in Ids : FundHackathon(Organizer, id, 1)
    \/ \E id \in Ids, ws \in IndexLists : SetWinners(Organizer, id, ws)
    \/ \E id \in Ids : EndHackathon(Organizer, id)
    \/ \E id \in Ids : DistributePrizes(Organizer, id, 0)
    \/ Withdraw(Organizer, 0)
    \/ Receive(1)

SpecIndex == Init /\ [][NextIndex]_vars

(* ------- winners: one id, every short list over a few addresses ------- *)

WinnersIds == {1}
\* every list of up to MaxWinners entries, and lists of MaxWinners + 1
WinnersLists ==
    SeqsUpTo({ZeroAddress} \cup (2 .. WinnersMaxAddress), MaxWinners)
    \cup {<<2, 3, 4>>, <<4, 3, 2>>, <<2, 3, 4, 5>>, <<2, 3, 4, 2>>}

NextWinners ==
    \/ \E id \in WinnersIds : FundHackathon(Organizer, id, 1)
    \/ \E id \in WinnersIds, ws \in WinnersLists :
           SetWinners(Organizer, id, ws)
    \/ \E id \in WinnersIds : EndHackathon(Organizer, id)
    \/ \E id \in WinnersIds : DistributePrizes(Organizer, id, 0)

SpecWinners == Init /\ [][NextWinners]_vars

(* ------- guards: any caller, with the circuit breaker ----------------- *)

GuardIds == {1}
GuardSenders == {Organizer, Stranger}
GuardLists == {<<2>>, <<3, 2>>}

NextGuard ==
    \/ \E sender \in GuardSenders, id \in GuardIds, v \in 0 .. 1 :
           FundHackathon(sender, id, v)
    \/ \E sender \in GuardSenders, id \in GuardIds, ws \in GuardLists :
           SetWinners(sender, id, ws)
    \/ \E sender \in GuardSenders, id \in GuardIds :
           EndHackathon(sender, id)
    \/ \E sender \in GuardSenders, id \in GuardIds, f \in 0 .. 1 :
           DistributePrizes(sender, id, f)
    \/ \E sender \in GuardSenders, f \in 0 .. 1 : Withdraw(sender, f)
    \/ \E sender \in GuardSenders : Pause(sender)
    \/ \E sender \in GuardSenders : Unpause(sender)
    \/ Receive(1)

SpecGuard == Init /\ [][NextGuard]_vars

(* ------- transfers: a recipient refuses its transfer ------------------ *)

TransferIds == {1}
TransferLists == {<<2>>, <<3, 2>>, <<2, 3, 4>>}

NextTransfer ==
    \/ \E id \in TransferIds, v \in 1 .. MaxValue :
           FundHackathon(Organizer, id, v)
    \/ \E id \in TransferIds, ws \in TransferLists :
           SetWinners(Organizer, id, ws)
    \/ \E id \in TransferIds : EndHackathon(Organizer, id)
    \/ \E id \in TransferIds, f \in 0 .. MaxWinners :
           DistributePrizes(Organizer, id, f)
    \/ \E f \in 0 .. 1 : Withdraw(Organizer, f)
    \/ Receive(1)

SpecTransfer == Init /\ [][NextTransfer]_vars

(* ------- reentry: recipients call back during their transfer ---------- *)

ReentryIds == {1, 2}
ReentryLists == {<<2>>, <<3, 2>>, <<Organizer, 3, 2>>}
ReentryOps ==
    {"fundHackathon", "setWinners", "distributePrizes", "endHackathon",
     "withdraw", "pause", "unpause"}

NextReentry ==
    \/ \E id \in ReentryIds : FundHackathon(Organizer, id, 1)
    \/ \E id \in ReentryIds, ws \in ReentryLists :
           SetWinners(Organizer, id, ws)
    \/ \E id \in ReentryIds : EndHackathon(Organizer, id)
    \/ \E id \in ReentryIds : DistributeEnter(Organizer, id)
    \/ \E op \in ReentryOps, id \in ReentryIds, ws \in ReentryLists :
           Reenter(op, id, IF op = "setWinners" THEN ws ELSE <<>>)
    \/ TransferReturns
    \/ TransferRefused

SpecReentry == Init /\ [][NextReentry]_vars

(* ------ settlement: the server, and the organizer calling directly ----- *)

\* SERIAL ids start at 1
ServerIds == {1}
Owner == [id |-> 1, role |-> "organizer"]
OtherOrganizer == [id |-> 2, role |-> "organizer"]
Participant == [id |-> 3, role |-> "user"]
Users == {Owner, OtherOrganizer, Participant}
Commands == {"end", "fund", "set-winners", "distribute"}
ServerLists == {<<2>>}
ServerAmounts == {1}

Next ==
    \/ CreateHackathon(Owner, ServerIds)
    \/ \E slot \in Slots, cmd \in Commands, id \in ServerIds,
          amount \in ServerAmounts, ws \in ServerLists :
           Begin(slot, cmd, Owner, id,
                 IF cmd = "fund" THEN amount ELSE 0,
                 IF cmd = "set-winners" THEN ws ELSE <<>>)
    \/ \E slot \in Slots : Submit(slot)
    \/ \E slot \in Slots : SubmitFails(slot)
    \/ Mine
    \/ \E slot \in Slots : Confirmed(slot)
    \/ \E slot \in Slots : Reverted(slot)
    \/ \E slot \in Slots : WaitFails(slot)
    \/ Dropped
    \/ \E id \in ServerIds, amount \in ServerAmounts :
           FundHackathon(Organizer, id, parseEther(amount))
    \/ \E id \in ServerIds, ws \in ServerLists :
           SetWinners(Organizer, id, ws)
    \/ \E id \in ServerIds : EndHackathon(Organizer, id)
    \/ \E id \in ServerIds : DistributePrizes(Organizer, id, 0)
    \/ Receive(1)

Spec == Init /\ [][Next]_vars

(* ------ requesters: commands of users who do not own the row ---------- *)

NextAuth ==
    \/ CreateHackathon(Owner, ServerIds)
    \/ \E slot \in Slots, cmd \in Commands, id \in ServerIds, user \in Users,
          amount \in ServerAmounts, ws \in ServerLists :
           Begin(slot, cmd, user, id,
                 IF cmd = "fund" THEN amount ELSE 0,
                 IF cmd = "set-winners" THEN ws ELSE <<>>)
    \/ \E slot \in Slots : Submit(slot)
    \/ Mine
    \/ \E slot \in Slots : Confirmed(slot)
    \/ \E slot \in Slots : Reverted(slot)
    \/ \E id \in ServerIds, amount \in ServerAmounts :
           FundHackathon(Organizer, id, parseEther(amount))

SpecAuth == Init /\ [][NextAuth]_vars

(* ------ recovery: the server alone, after one funding of the ledger ---- *)

NextRecover ==
    \/ CreateHackathon(Owner, ServerIds)
    \/ \E slot \in Slots, cmd \in Commands, id \in ServerIds,
          amount \in ServerAmounts, ws \in ServerLists :
           Begin(slot, cmd, Owner, id,
                 IF cmd = "fund" THEN amount ELSE 0,
                 IF cmd = "set-winners" THEN ws ELSE <<>>)
    \/ \E slot \in Slots : Submit(slot)
    \/ \E slot \in Slots : SubmitFails(slot)
    \/ Mine
    \/ \E slot \in Slots : Confirmed(slot)
    \/ \E slot \in Slots : Reverted(slot)
    \/ \E slot \in Slots : WaitFails(slot)
    \/ Dropped
    \/ \E id \in ServerIds, amount \in ServerAmounts :
           FundHackathon(Organizer, id, parseEther(amount))

\* the event loop runs every continuation that is ready, the chain includes
\* the transactions of the pool, and the organizer keeps asking for the End
FairRecover ==
    /\ WF_vars(\E slot \in Slots : Submit(slot))
    /\ WF_vars(Mine)
    /\ WF_vars(\E slot \in Slots : Confirmed(slot))
    /\ WF_vars(\E slot \in Slots : Reverted(slot))
    /\ WF_vars(\E slot \in Slots, id \in ServerIds :
                  Begin(slot, "end", Owner, id, 0, <<>>))

SpecRecover == Init /\ [][NextRecover]_vars /\ FairRecover

(* ------ lifecycle: the owner keeps sending every command -------------- *)

\* the owner creates the hackathon and keeps sending each of the commands,
\* the event loop runs every continuation that is ready and the chain
\* includes the transactions of the pool
FairLifecycle ==
    /\ WF_vars(CreateHackathon(Owner, ServerIds))
    /\ \A cmd \in Commands :
          WF_vars(\E slot \in Slots, id \in ServerIds,
                     amount \in ServerAmounts, ws \in ServerLists :
                      Begin(slot, cmd, Owner, id,
                            IF cmd = "fund" THEN amount ELSE 0,
                            IF cmd = "set-winners" THEN ws ELSE <<>>))
    /\ WF_vars(\E slot \in Slots : Submit(slot))
    /\ WF_vars(Mine)
    /\ WF_vars(\E slot \in Slots : Confirmed(slot))
    /\ WF_vars(\E slot \in Slots : Reverted(slot))

SpecLifecycle == Init /\ [][NextRecover]_vars /\ FairLifecycle

(* ------- two records side by side, winners replaced -------------------- *)

FrameIds == {1, 2}
FrameLists == {<<2>>, <<3, 2>>}

NextFrame ==
    \/ \E id \in FrameIds, v \in 1 .. MaxValue :
           FundHackathon(Organizer, id, v)
    \/ \E id \in FrameIds, ws \in FrameLists :
           SetWinners(Organizer, id, ws)
    \/ \E id \in FrameIds : EndHackathon(Organizer, id)
    \/ \E id \in FrameIds : DistributePrizes(Organizer, id, 0)

SpecFrame == Init /\ [][NextFrame]_vars

(* ------------------------------- claims ------------------------------- *)

SumSeq(s) == SumAmounts([k \in 1 .. Len(s) |-> <<k, s[k]>>])

\* every precondition of distributePrizes holds for the record of id
Distributable(id) ==
    /\ ~paused
    /\ hackathons[id].exists
    /\ hackathons[id].isFunded
    /\ Len(hackathons[id].winners) \in 1 .. 3
    /\ ~hackathons[id].prizesDistributed
    /\ hackathons[id].isEnded
    /\ balance >= hackathons[id].totalFunding

\* C1: whatever the server's requests and the organizer's own calls do, in
\* any order, a Distribute of an id takes effect at most once, and what was
\* transferred to the winners of an id never exceeds its totalFunding.
C1_DistributeAtMostOnce ==
    \A id \in Ids :
        /\ paid[id].count <= 1
        /\ paid[id].amount <= hackathons[id].totalFunding
        /\ paid[id].count = 1 =>
              /\ hackathons[id].prizesDistributed
              /\ paid[id].amount = hackathons[id].totalFunding

\* the hackathon, ended through the server, was distributed, and a repeated
\* Distribute was rejected although the balance would have covered it
C1_Witness ==
    \E id \in ServerIds :
        /\ rows[id].manually_ended
        /\ paid[id].count = 1
        /\ paid[id].amount > 0
        /\ last.op = "distributePrizes"
        /\ last.id = id
        /\ ~last.ok
        /\ balance >= hackathons[id].totalFunding

\* C2: after every successful Distribute(id) the payouts, one per winner,
\* sum to exactly totalFunding; and Distribute is never rejected for a
\* rounding mismatch: a Distribute by the organizer whose transfers are all
\* accepted fails only when one of its preconditions does not hold.
C2_PayoutsSumToFunding ==
    last.op = "distributePrizes" =>
        /\ last.ok =>
              /\ Len(last.transfers) = Len(hackathons[last.id].winners)
              /\ Len(last.transfers) \in 1 .. 3
              /\ SumAmounts(last.transfers)
                    = hackathons[last.id].totalFunding
              /\ \A k \in 1 .. Len(last.transfers) :
                    last.transfers[k][2] >= 0
        /\ (~last.ok /\ last.sender = Organizer /\ last.failAt = 0)
              => ~Distributable(last.id)

\* a distribution among three winners of a funding that 100 does not divide
C2_Witness ==
    /\ last.op = "distributePrizes"
    /\ last.ok
    /\ Len(last.transfers) = 3
    /\ hackathons[last.id].totalFunding = 99
    /\ SumAmounts(last.transfers) = 99

\* the payouts the claim states for totalFunding t among the winners ws
SpecifiedPayouts(t, ws) ==
    IF Len(ws) = 1 THEN << <<ws[1], t>> >>
    ELSE IF Len(ws) = 2
    THEN << <<ws[1], (t * 70) \div 100>>,
            <<ws[2], t - ((t * 70) \div 100)>> >>
    ELSE << <<ws[1], (t * 50) \div 100>>,
            <<ws[2], (t * 30) \div 100>>,
            <<ws[3], t - ((t * 50) \div 100) - ((t * 30) \div 100)>> >>

\* C3: a successful Distribute pays, in list order, totalFunding to one
\* winner; floor(70%) and the rest to two; floor(50%), floor(30%) and the
\* rest to three: 100 gives 50/30/20 and 101 gives 50/30/21.
C3_PayoutsByWinnerCount ==
    (last.op = "distributePrizes" /\ last.ok) =>
        LET h == hackathons[last.id]
            amounts == [k \in 1 .. Len(last.transfers) |->
                          last.transfers[k][2]]
        IN  /\ last.transfers = SpecifiedPayouts(h.totalFunding, h.winners)
            /\ (Len(h.winners) = 3 /\ h.totalFunding = 100)
                  => amounts = <<50, 30, 20>>
            /\ (Len(h.winners) = 3 /\ h.totalFunding = 101)
                  => amounts = <<50, 30, 21>>

\* 101 distributed among the winners 4, 2, 3 in that order
C3_Witness ==
    /\ last.op = "distributePrizes"
    /\ last.ok
    /\ hackathons[last.id].winners = <<4, 2, 3>>
    /\ last.transfers = << <<4, 50>>, <<2, 30>>, <<3, 21>> >>

\* C4: a successful Fund(id, amount) sets totalFunding to amount on a record
\* that was not funded; a Fund on a funded id fails and changes nothing of
\* the ledger; the totalFunding of a funded record never changes.
C4_FundedOnce ==
    [][/\ (last'.op = "fundHackathon" /\ last'.ok) =>
             /\ ~hackathons[last'.id].isFunded
             /\ hackathons'[last'.id].totalFunding = last'.value
             /\ hackathons'[last'.id].isFunded
       /\ (last'.op = "fundHackathon" /\ hackathons[last'.id].isFunded) =>
             /\ ~last'.ok
             /\ UNCHANGED ledgerVars
       /\ \A id \in Ids :
             hackathons[id].isFunded =>
                 /\ hackathons'[id].isFunded
                 /\ hackathons'[id].totalFunding
                       = hackathons[id].totalFunding]_vars

\* a second Fund with another positive amount was rejected
C4_Witness ==
    /\ last.op = "fundHackathon"
    /\ ~last.ok
    /\ last.value > 0
    /\ hackathons[last.id].isFunded
    /\ hackathons[last.id].totalFunding # last.value
    /\ balance = hackathons[last.id].totalFunding

\* C5: a distributed record is funded and ended and has winners.
C5_DistributedImplies ==
    \A id \in Ids :
        hackathons[id].prizesDistributed =>
            /\ hackathons[id].isFunded
            /\ hackathons[id].isEnded
            /\ hackathons[id].winners # <<>>

C5_Witness ==
    \E id \in Ids :
        /\ hackathons[id].prizesDistributed
        /\ last.op = "distributePrizes"
        /\ last.id = id
        /\ last.ok

\* C6: an id is in activeHackathons exactly when its record is funded and
\* not distributed, and no id is in it twice.
C6_ActiveIndex ==
    /\ \A id \in Ids :
          (\E i \in 1 .. Len(activeHackathons) : activeHackathons[i] = id)
              <=> (hackathons[id].isFunded
                   /\ ~hackathons[id].prizesDistributed)
    /\ \A i, j \in 1 .. Len(activeHackathons) :
          activeHackathons[i] = activeHackathons[j] => i = j

\* three ids were funded; id 1 was distributed and left the index, where
\* the ids 2 and 0 remain
C6_Witness ==
    /\ last.op = "distributePrizes"
    /\ last.ok
    /\ last.id = 1
    /\ activeHackathons = <<2, 0>>
    /\ hackathons[1].prizesDistributed

\* C7: a Distribute on a record that is not ended fails, transfers nothing
\* and changes nothing of the ledger.
C7_DistributeNeedsEnded ==
    [][(last'.op = "distributePrizes" /\ ~hackathons[last'.id].isEnded) =>
           /\ ~last'.ok
           /\ last'.transfers = <<>>
           /\ UNCHANGED <<ledgerVars, paid>>]_vars

\* rejected although funded, winners set and the balance covers the funding
C7_Witness ==
    /\ last.op = "distributePrizes"
    /\ ~last.ok
    /\ last.failAt = 0
    /\ hackathons[last.id].isFunded
    /\ hackathons[last.id].winners # <<>>
    /\ ~hackathons[last.id].isEnded
    /\ balance >= hackathons[last.id].totalFunding

\* a list SetWinners must reject
BadWinners(ws) ==
    \/ Len(ws) = 0
    \/ Len(ws) > 3
    \/ \E i \in 1 .. Len(ws) : ws[i] = 0
    \/ \E i, j \in 1 .. Len(ws) : i # j /\ ws[i] = ws[j]

\* C8: SetWinners fails and changes nothing of the ledger when the list is
\* empty, longer than 3, holds the zero address or holds an address twice,
\* and when the record does not exist, is not funded or is distributed.
C8_SetWinnersRejects ==
    [][(/\ last'.op = "setWinners"
        /\ \/ BadWinners(last'.winners)
           \/ ~hackathons[last'.id].exists
           \/ ~hackathons[last'.id].isFunded
           \/ hackathons[last'.id].prizesDistributed) =>
           /\ ~last'.ok
           /\ UNCHANGED ledgerVars]_vars

\* a list with the same address first and last was rejected, and the list
\* stored before is still there
C8_Witness ==
    /\ last.op = "setWinners"
    /\ ~last.ok
    /\ last.winners = <<2, 3, 2>>
    /\ hackathons[last.id].isFunded
    /\ ~hackathons[last.id].prizesDistributed
    /\ hackathons[last.id].winners = <<3, 2>>

\* C9: before the distribution a SetWinners of the organizer with a valid
\* list succeeds and stores that list; the winners of a distributed record
\* never change.
C9_WinnersReplaceableUntilDistributed ==
    [][/\ (/\ last'.op = "setWinners"
           /\ last'.sender = Organizer
           /\ ~paused
           /\ ~BadWinners(last'.winners)
           /\ hackathons[last'.id].isFunded
           /\ ~hackathons[last'.id].prizesDistributed) =>
             /\ last'.ok
             /\ hackathons'[last'.id].winners = last'.winners
       /\ \A id \in Ids :
             hackathons[id].prizesDistributed =>
                 hackathons'[id].winners = hackathons[id].winners]_vars

\* a valid list other than the stored one was refused after the distribution
C9_Witness ==
    /\ last.op = "setWinners"
    /\ ~last.ok
    /\ ~BadWinners(last.winners)
    /\ hackathons[last.id].prizesDistributed
    /\ hackathons[last.id].winners # last.winners

\* C10: a Withdraw while some record is funded and not distributed fails
\* and leaves the balance, and the rest of the ledger, unchanged.
C10_WithdrawBlockedWhilePending ==
    [][(/\ last'.op = "withdraw"
        /\ \E id \in Ids : /\ hackathons[id].isFunded
                            /\ ~hackathons[id].prizesDistributed) =>
           /\ ~last'.ok
           /\ last'.transfers = <<>>
           /\ balance' = balance
           /\ UNCHANGED ledgerVars]_vars

\* refused with one record distributed, another pending, and a surplus
C10_Witness ==
    /\ last.op = "withdraw"
    /\ ~last.ok
    /\ last.sender = Organizer
    /\ \E id \in Ids : hackathons[id].prizesDistributed
    /\ Len(activeHackathons) = 1
    /\ balance > hackathons[activeHackathons[1]].totalFunding

\* C11 as stated: with an empty index and the contract not paused, a
\* Withdraw of the organizer (whose account accepts the transfer) succeeds,
\* sends the whole balance and leaves a balance of zero.
C11_Original ==
    [][(/\ last'.op = "withdraw"
        /\ last'.sender = Organizer
        /\ last'.failAt = 0
        /\ activeHackathons = <<>>
        /\ ~paused) =>
           /\ last'.ok
           /\ last'.transfers = << <<Organizer, balance>> >>
           /\ balance' = 0]_vars

\* C11: with an empty index, the contract not paused and a balance above
\* zero, a Withdraw of the organizer whose account accepts the transfer
\* succeeds, sends the whole balance to the organizer and leaves a balance of
\* zero and the rest of the ledger as it was; with a balance of zero the
\* Withdraw is rejected and nothing changes.
C11_WithdrawSweepsPositiveBalance ==
    [][(/\ last'.op = "withdraw"
        /\ last'.sender = Organizer
        /\ last'.failAt = 0
        /\ activeHackathons = <<>>
        /\ ~paused) =>
           IF balance > 0
           THEN /\ last'.ok
                /\ last'.transfers = << <<Organizer, balance>> >>
                /\ last'.events = << <<"Withdrawn", Organizer, balance>> >>
                /\ balance' = 0
                /\ UNCHANGED <<hackathons, activeHackathons, paused>>
           ELSE /\ ~last'.ok
                /\ last'.transfers = <<>>
                /\ UNCHANGED ledgerVars]_vars

\* after a distribution the organizer swept the deposit that was left
C11_Witness ==
    /\ last.op = "withdraw"
    /\ last.ok
    /\ SumAmounts(last.transfers) > 0
    /\ balance = 0
    /\ activeHackathons = <<>>
    /\ \E id \in Ids : hackathons[id].prizesDistributed

\* C12 as stated: the End of a hackathon that is not ended succeeds, so the
\* transaction of an End command is never found reverted while the ledger
\* record is not ended.
C12_FirstEndSucceeds ==
    \A slot \in Slots :
        (/\ requests[slot].cmd = "end"
         /\ requests[slot].pc = "mined"
         /\ ~hackathons[requests[slot].id].isEnded) =>
            requests[slot].txok

\* C13: a command whose transaction was not sent, reverted, or whose wait
\* failed answers 500 and writes nothing to the table; a row changes only in
\* the UPDATE of a command whose transaction was confirmed, and by the
\* fields of that command.
C13_FailureLeavesProjection ==
    [][/\ response'.status # 200 => \A id \in Ids :
             rows[id].present => rows'[id] = rows[id]
       /\ \A id \in Ids :
             (rows[id].present /\ rows'[id] # rows[id]) =>
                 /\ response' = [cmd |-> response'.cmd, id |-> id,
                                 status |-> 200]
                 /\ \E slot \in Slots :
                       /\ requests[slot].pc = "mined"
                       /\ requests[slot].txok
                       /\ requests[slot].id = id
                       /\ requests'[slot] = Idle
                       /\ rows'[id] = UpdatedRow(rows[id], requests[slot])]_vars

\* the wait of an End command failed while its transaction is still in the
\* pool: the command answered 500 and the row is not marked ended
C13_Witness ==
    /\ response.cmd = "end"
    /\ response.status = 500
    /\ rows[response.id].present
    /\ ~rows[response.id].manually_ended
    /\ ~rows[response.id].manually_ended_at
    /\ rows[response.id].status = "active"
    /\ \E k \in 1 .. Len(mempool) :
          /\ mempool[k].slot = 0
          /\ mempool[k].cmd = "end"
          /\ mempool[k].id = response.id

\* C14 as stated, for the ended flag: whatever failed, from some time on the
\* row of a hackathon says ended exactly when the ledger record is ended.
C14_EventuallyReconciled ==
    <>[](\A id \in ServerIds :
            rows[id].present =>
                (rows[id].manually_ended <=> hackathons[id].isEnded))

\* C15 as stated, for its final state: when a SetWinners command for an id
\* was answered and no other one for that id is being handled or has a
\* transaction in the pool, the winners of the row are the winners of the
\* ledger record.
C15_WinnersAgreeAfterCommands ==
    \A id \in ServerIds :
        (/\ response.cmd = "set-winners"
         /\ response.id = id
         /\ response.status # 0
         /\ \A slot \in Slots :
               ~(requests[slot].cmd = "set-winners" /\ requests[slot].id = id)
         /\ \A k \in 1 .. Len(mempool) :
               ~(mempool[k].cmd = "set-winners" /\ mempool[k].id = id)) =>
            rows[id].winners = hackathons[id].winners

\* C16 as stated: no two commands on the same id have their transactions
\* pending at the same time; stated for a ledger record that exists and is
\* not ended, on which the End of either command would go through.
C16_OnePendingPerId ==
    \A s1, s2 \in Slots :
        (/\ s1 # s2
         /\ requests[s1].pc = "wait"
         /\ requests[s2].pc = "wait"
         /\ hackathons[requests[s1].id].exists
         /\ ~hackathons[requests[s1].id].isEnded) =>
            requests[s1].id # requests[s2].id

\* C17: the row of a hackathon is never ahead of the ledger: a row marked
\* ended has an ended record, a funded row a record funded with that amount,
\* a row marked distributed a distributed record; and the winners of a row
\* are only ever written as the list of a SetWinners that the ledger
\* executed with success.
C17_ProjectionNeverAhead ==
    /\ [](\A id \in Ids :
             rows[id].present =>
                 /\ rows[id].manually_ended => hackathons[id].isEnded
                 /\ rows[id].funded_amount > 0 =>
                       /\ hackathons[id].isFunded
                       /\ hackathons[id].totalFunding
                             = parseEther(rows[id].funded_amount)
                 /\ rows[id].winners # <<>> =>
                       hackathons[id].winners # <<>>
                 /\ rows[id].prizes_distributed =>
                       hackathons[id].prizesDistributed)
    /\ [][\A id \in Ids :
             (rows[id].present /\ rows'[id].winners # rows[id].winners) =>
                 \E slot \in Slots :
                     /\ requests[slot].pc = "mined"
                     /\ requests[slot].txok
                     /\ requests[slot].cmd = "set-winners"
                     /\ requests[slot].id = id
                     /\ rows'[id].winners = requests[slot].winners]_vars

\* the End of a funded hackathon went through the server: the row was
\* marked ended after the ledger record
C17_Witness ==
    /\ response.cmd = "end"
    /\ response.status = 200
    /\ rows[response.id].manually_ended
    /\ hackathons[response.id].isEnded
    /\ hackathons[response.id].isFunded

\* C18: a Distribute in which the transfer to a winner is refused, at
\* whatever position of the list, and a Withdraw whose transfer is refused,
\* fail as a whole: no transfer is kept, prizesDistributed, the index and
\* the balance are as before.
C18_TransferFailureAborts ==
    [][(\/ /\ last'.op = "distributePrizes"
           /\ last'.failAt \in 1 .. Len(hackathons[last'.id].winners)
        \/ /\ last'.op = "withdraw"
           /\ last'.failAt = 1) =>
           /\ ~last'.ok
           /\ last'.transfers = <<>>
           /\ last'.events = <<>>
           /\ \A id \in Ids :
                 hackathons'[id].prizesDistributed
                     = hackathons[id].prizesDistributed
           /\ activeHackathons' = activeHackathons
           /\ balance' = balance
           /\ UNCHANGED <<ledgerVars, paid>>]_vars

\* the third of three winners refused its transfer in a Distribute that
\* met every precondition: the record is still to be distributed
C18_Witness ==
    /\ last.op = "distributePrizes"
    /\ last.failAt = 3
    /\ ~last.ok
    /\ Len(hackathons[last.id].winners) = 3
    /\ Distributable(last.id)
    /\ activeHackathons = <<last.id>>
    /\ paid[last.id].count = 0

\* the operations the circuit breaker guards
Guarded ==
    {"fundHackathon", "setWinners", "distributePrizes", "endHackathon",
     "withdraw"}

\* C19 as stated: while the contract is paused the guarded operations are
\* rejected, and nothing of the ledger but the paused flag changes: the
\* records, the index and the balance stay as they are.
C19_Original ==
    [][paused =>
           /\ last'.op \in Guarded => ~last'.ok
           /\ UNCHANGED <<hackathons, activeHackathons, balance>>]_vars

\* C19: while the contract is paused, every Fund, SetWinners, Distribute,
\* End and Withdraw is rejected and changes nothing; the records and the
\* index do not change and the balance does not go down, but it still grows
\* by plain deposits, which receive() accepts while paused; a Pause or an
\* Unpause changes the paused flag only, so that after the Unpause the
\* operations find the ledger as it was, deposits apart.
C19_PausedBlocksOperations ==
    [][/\ paused =>
             /\ last'.op \in Guarded =>
                   /\ ~last'.ok
                   /\ last'.transfers = <<>>
                   /\ UNCHANGED <<ledgerVars, paid>>
             /\ UNCHANGED <<hackathons, activeHackathons>>
             /\ balance' >= balance
             /\ balance' # balance => (last'.op = "receive" /\ paused')
             /\ ~paused' => (last'.op = "unpause" /\ last'.ok)
       /\ last'.op \in {"pause", "unpause"} =>
             /\ UNCHANGED <<hackathons, activeHackathons, balance>>
             /\ last'.ok => paused' = (last'.op = "pause")
             /\ ~last'.ok => paused' = paused]_vars

\* a Distribute of the organizer that only the pause stands against
C19_Witness ==
    /\ paused
    /\ last.op = "distributePrizes"
    /\ last.sender = Organizer
    /\ last.failAt = 0
    /\ ~last.ok
    /\ hackathons[last.id].isFunded
    /\ hackathons[last.id].isEnded
    /\ hackathons[last.id].winners # <<>>
    /\ ~hackathons[last.id].prizesDistributed
    /\ balance >= hackathons[last.id].totalFunding

\* C20: a Fund, SetWinners, Distribute, End, Withdraw, Pause or Unpause
\* called by anyone but the organizer fails, transfers nothing and changes
\* nothing of the ledger.
C20_OnlyOrganizer ==
    [][(/\ last'.op \in Guarded \cup {"pause", "unpause"}
        /\ last'.sender # Organizer) =>
           /\ ~last'.ok
           /\ last'.transfers = <<>>
           /\ last'.events = <<>>
           /\ UNCHANGED <<ledgerVars, paid>>]_vars

\* a Distribute that would have gone through for the organizer was refused
\* to another caller
C20_Witness ==
    /\ last.op = "distributePrizes"
    /\ last.sender = Stranger
    /\ last.failAt = 0
    /\ ~last.ok
    /\ Distributable(last.id)

\* C21: a command of a requester who is not the organizer recorded on the
\* row is answered with a rejection in the step that receives it: nothing is
\* handed to the contract, and the ledger, the table, the requests being
\* handled and the pool of transactions stay as they are.
C21_OnlyRowOrganizer ==
    [][\A slot \in Slots, cmd \in Commands, user \in Users, id \in ServerIds,
          amount \in {0} \cup ServerAmounts, ws \in {<<>>} \cup ServerLists :
           (/\ Begin(slot, cmd, user, id, amount, ws)
            /\ rows[id].organizer_id # user.id) =>
               /\ response'.cmd = cmd
               /\ response'.status \in {400, 403, 404}
               /\ UNCHANGED <<ledgerVars, paid, rows, requests, mempool>>]_vars

\* an End that the owner of the row could have made (the ledger record
\* exists and is not ended, the row is not ended) was refused with 403
C21_Witness ==
    /\ response.cmd = "end"
    /\ response.status = 403
    /\ rows[response.id].present
    /\ rows[response.id].organizer_id = Owner.id
    /\ ~rows[response.id].manually_ended
    /\ hackathons[response.id].exists
    /\ ~hackathons[response.id].isEnded
    /\ \A slot \in Slots : requests[slot] = Idle
    /\ mempool = <<>>

\* C22 as stated: while distributePrizes makes its transfers the record is
\* already marked distributed and its id is out of the index.
C22_CommittedBeforeTransfers ==
    frame.active =>
        /\ hackathons[frame.id].prizesDistributed
        /\ \A i \in 1 .. Len(activeHackathons) :
              activeHackathons[i] # frame.id

C24_OneEventPerPayout ==
    /\ (last.op = "distributePrizes" /\ last.ok) =>
          last.events =
              [k \in 1 .. Len(last.transfers) |->
                  <<"PrizeDistributed", last.id, last.transfers[k][1],
                    last.transfers[k][2]>>]
    /\ (last.op = "withdraw" /\ last.ok) =>
          \A k \in 1 .. Len(last.events) :
              last.events[k][1] # "PrizeDistributed"

\* C25: the flags exists, isFunded, isEnded and prizesDistributed of a
\* record never go from true to false, whatever call succeeds or fails.
C25_FlagsMonotonic ==
    [][\A id \in Ids :
           /\ hackathons[id].exists => hackathons'[id].exists
           /\ hackathons[id].isFunded => hackathons'[id].isFunded
           /\ hackathons[id].isEnded => hackathons'[id].isEnded
           /\ hackathons[id].prizesDistributed
                 => hackathons'[id].prizesDistributed]_vars

\* every flag of the record is set, and the last call, a Fund of the
\* organizer with a value, failed on it
C25_Witness ==
    /\ last.op = "fundHackathon"
    /\ last.sender = Organizer
    /\ last.value > 0
    /\ ~last.ok
    /\ ~paused
    /\ hackathons[last.id].exists
    /\ hackathons[last.id].isFunded
    /\ hackathons[last.id].isEnded
    /\ hackathons[last.id].prizesDistributed

\* C26: a Fund command goes on to its contract call only when the row is
\* marked ended and its funded_amount is not above 0; any other Fund command
\* is answered with a rejection and nothing is handed to the contract; the
\* fundHackathon of the ledger itself does not ask for an ended record.
C26_FundNeedsLocallyEnded ==
    [][/\ \A slot \in Slots, user \in Users, id \in ServerIds,
             amount \in ServerAmounts :
              Begin(slot, "fund", user, id, amount, <<>>) =>
                  IF /\ rows[id].present
                     /\ rows[id].manually_ended
                     /\ ~(rows[id].funded_amount > 0)
                     /\ user.role = "organizer"
                     /\ rows[id].organizer_id = user.id
                  THEN /\ requests'[slot].pc = "call"
                       /\ requests'[slot].cmd = "fund"
                       /\ response' = NoResponse
                  ELSE /\ response'.cmd = "fund"
                       /\ response'.status \in {400, 403, 404}
                       /\ UNCHANGED <<requests, mempool>>
       /\ (/\ last'.op = "fundHackathon"
           /\ last'.sender = Organizer
           /\ last'.value > 0
           /\ ~paused
           /\ ~hackathons[last'.id].isFunded) => last'.ok]_vars

\* the Fund of the owner was refused with 400 for a row that is not ended,
\* while the ledger record was funded without being ended
C26_Witness ==
    /\ response.cmd = "fund"
    /\ response.status = 400
    /\ rows[response.id].present
    /\ ~rows[response.id].manually_ended
    /\ rows[response.id].funded_amount = 0
    /\ hackathons[response.id].isFunded
    /\ ~hackathons[response.id].isEnded
    /\ mempool = <<>>

\* C28 as stated: the commands of the owner take a newly created hackathon
\* to the end of its life: sooner or later it is distributed on the ledger
\* and in the table.
C28_LifecycleCompletes ==
    <>(\E id \in ServerIds :
          /\ rows[id].prizes_distributed
          /\ hackathons[id].prizesDistributed)

\* C29: a record exists exactly when it is funded; a Fund that fails on an
\* id without a record leaves it without one, and an End or a SetWinners
\* succeeds only on a funded id.
C29_ExistsIffFunded ==
    /\ [](\A id \in Ids : hackathons[id].exists <=> hackathons[id].isFunded)
    /\ [][/\ (/\ last'.op = "fundHackathon" /\ ~last'.ok
              /\ ~hackathons[last'.id].exists) =>
                 (~hackathons'[last'.id].exists /\ UNCHANGED ledgerVars)
          /\ (/\ last'.op \in {"endHackathon", "setWinners"}
              /\ last'.ok) => hackathons[last'.id].isFunded]_vars

\* the organizer's Fund of nothing failed, while not paused, on an id that
\* has no record: the creation of the record was undone with the call
C29_Witness ==
    /\ last.op = "fundHackathon"
    /\ last.sender = Organizer
    /\ last.value = 0
    /\ ~last.ok
    /\ ~paused
    /\ ~hackathons[last.id].exists
    /\ ~hackathons[last.id].isFunded

\* what the ledger owes to the winners of id: its totalFunding while it is
\* funded and not distributed
Pending(id) ==
    IF hackathons[id].isFunded /\ ~hackathons[id].prizesDistributed
    THEN hackathons[id].totalFunding
    ELSE 0

PendingFunding == SumSeq([k \in 1 .. (MaxId + 1) |-> Pending(k - 1)])

\* C30: between transactions the balance covers the totalFunding of all
\* funded, undistributed records together; a Distribute that was refused
\* (and so left the ledger as it was) did not find every precondition but
\* that of the balance satisfied.
C30_BalanceCoversPending ==
    /\ balance >= PendingFunding
    /\ (/\ last.op = "distributePrizes"
        /\ last.sender = Organizer
        /\ last.failAt = 0
        /\ ~last.ok
        /\ ~paused) =>
           ~(/\ hackathons[last.id].exists
             /\ hackathons[last.id].isFunded
             /\ Len(hackathons[last.id].winners) > 0
             /\ ~hackathons[last.id].prizesDistributed
             /\ hackathons[last.id].isEnded)

\* a Distribute went through and left exactly what the other two funded
\* records are owed
C30_Witness ==
    /\ last.op = "distributePrizes"
    /\ last.ok
    /\ PendingFunding = 2
    /\ balance = PendingFunding
    /\ Len(activeHackathons) = 2

\* C31: a Fund, SetWinners, End or Distribute of an id leaves the record of
\* every other id as it was; on its own record a SetWinners changes nothing
\* but winners and an End nothing but isEnded.
C31_OwnRecordOnly ==
    [][last'.op \in {"fundHackathon", "setWinners", "endHackathon",
                     "distributePrizes"} =>
          /\ \A b \in Ids \ {last'.id} : hackathons'[b] = hackathons[b]
          /\ last'.op = "setWinners" =>
                hackathons'[last'.id] =
                    [hackathons[last'.id] EXCEPT
                        !.winners = hackathons'[last'.id].winners]
          /\ last'.op = "endHackathon" =>
                hackathons'[last'.id] =
                    [hackathons[last'.id] EXCEPT
                        !.isEnded = hackathons'[last'.id].isEnded]]_vars

\* an End took effect on a funded record with winners while the other
\* record was funded with another amount, with other winners and not ended
C31_Witness ==
    /\ last.op = "endHackathon"
    /\ last.ok
    /\ hackathons[last.id].isEnded
    /\ hackathons[last.id].winners # <<>>
    /\ ~hackathons[last.id].prizesDistributed
    /\ \E b \in Ids \ {last.id} :
          /\ hackathons[b].isFunded
          /\ hackathons[b].totalFunding # hackathons[last.id].totalFunding
          /\ hackathons[b].winners # <<>>
          /\ hackathons[b].winners # hackathons[last.id].winners
          /\ ~hackathons[b].isEnded

====
